---- MODULE Spec2Model ----
(***************************************************************************)
(* Configuration defaults and validation of the vendored New Relic Go      *)
(* agent (vendor/github.com/newrelic/go-agent/config.go): the Config       *)
(* struct, NewConfig and Config.Validate.                                  *)
(*                                                                         *)
(* Go strings are modelled as sequences of one-character strings, so that  *)
(* len() is Len and strings.Count inspects the characters.  Durations are  *)
(* held in milliseconds.                                                   *)
(***************************************************************************)
EXTENDS Integers, Sequences, FiniteSets, TLC

VARIABLES cfg, result, built

vars == <<cfg, result, built>>

----------------------------------------------------------------------------
(* Bounds of the explored input space *)

\* application names: every string over NameAlphabet of at most this length
MaxNameLen == 3

\* license lengths explored: 0..LicenseDelta and licenseLength -/+ LicenseDelta
LicenseDelta == 1

----------------------------------------------------------------------------
(* Program constants *)

licenseLength == 40

appNameLimit == 3

\* fmt.Errorf with %d: the messages are written with the constant formatted
errLicenseLen == "license length is not 40"

errAppNameMissing == "string AppName required"

errAppNameLimit == "max of 3 rollup application names"

errHighSecurityWithSecurityPolicies ==
    "SecurityPoliciesToken and HighSecurity are incompatible; please ensure HighSecurity is set to false if SecurityPoliciesToken is a non-empty string and a security policy has been set for your account"

errMixedTracers ==
    "CrossApplicationTracer and DistributedTracer cannot be enabled simultaneously; please choose CrossApplicationTracer (available since v1.11) or DistributedTracer (available since v2.1)"

\* the nil error
nil == "nil"

\* no Validate result is held for the current value of cfg
NoResult == "none"

----------------------------------------------------------------------------
(* Strings *)

Delim == ";"

EmptyString == << >>

NameAlphabet == {"a", Delim}

RECURSIVE Repeat(_, _)
Repeat(ch, n) == IF n = 0 THEN << >> ELSE <<ch>> \o Repeat(ch, n - 1)

StringsUpTo(alphabet, n) == UNION {[1..k -> alphabet] : k \in 0..n}

AppNames ==
    StringsUpTo(NameAlphabet, MaxNameLen)
        \cup { <<"s", "v", "c">>,
               <<"a", ";", "b", ";", "c">>,
               <<"a", ";", "b", ";", "c", ";", "d">> }

LicenseLens ==
    (0..LicenseDelta) \cup ((licenseLength - LicenseDelta)..(licenseLength + LicenseDelta))

Licenses == {Repeat("k", n) : n \in LicenseLens}

Tokens == {EmptyString, <<"t">>}

\* strings.Count(s, sep) for a one-character separator
RECURSIVE Count(_, _)
Count(s, sep) ==
    IF s = << >> THEN 0
    ELSE (IF Head(s) = sep THEN 1 ELSE 0) + Count(Tail(s), sep)

----------------------------------------------------------------------------
(* The Config type *)

\* zero value of AttributeDestinationConfig
ZeroAttributeDestinationConfig ==
    [Enabled |-> FALSE, Include |-> << >>, Exclude |-> << >>]

\* Config{}: the Go zero value
ZeroConfig ==
    [AppName |-> EmptyString,
     License |-> EmptyString,
     Enabled |-> FALSE,
     Labels |-> << >>,
     HighSecurity |-> FALSE,
     SecurityPoliciesToken |-> EmptyString,
     CustomInsightsEvents |-> [Enabled |-> FALSE],
     TransactionEvents |->
        [Enabled |-> FALSE, Attributes |-> ZeroAttributeDestinationConfig],
     ErrorCollector |->
        [Enabled |-> FALSE, CaptureEvents |-> FALSE,
         IgnoreStatusCodes |-> << >>,
         Attributes |-> ZeroAttributeDestinationConfig],
     TransactionTracer |->
        [Enabled |-> FALSE,
         Threshold |-> [IsApdexFailing |-> FALSE, Duration |-> 0],
         SegmentThreshold |-> 0,
         StackTraceThreshold |-> 0,
         Attributes |-> ZeroAttributeDestinationConfig],
     Utilization |->
        [DetectAWS |-> FALSE, DetectAzure |-> FALSE, DetectPCF |-> FALSE,
         DetectGCP |-> FALSE, DetectDocker |-> FALSE,
         DetectKubernetes |-> FALSE],
     CrossApplicationTracer |-> [Enabled |-> FALSE],
     DistributedTracer |-> [Enabled |-> FALSE],
     SpanEvents |-> [Enabled |-> FALSE],
     DatastoreTracer |->
        [InstanceReporting |-> [Enabled |-> FALSE],
         DatabaseNameReporting |-> [Enabled |-> FALSE],
         QueryParameters |-> [Enabled |-> FALSE],
         SlowQuery |-> [Enabled |-> FALSE, Threshold |-> 0]],
     Attributes |-> ZeroAttributeDestinationConfig,
     RuntimeSampler |-> [Enabled |-> FALSE]]

----------------------------------------------------------------------------
(* NewConfig *)

NewConfig_DistributedOn(appname, license) ==
    [ZeroConfig EXCEPT
        !.AppName = appname,
        !.License = license,
        !.Enabled = TRUE,
        !.CustomInsightsEvents.Enabled = TRUE,
        !.TransactionEvents.Enabled = TRUE,
        !.TransactionEvents.Attributes.Enabled = TRUE,
        !.HighSecurity = FALSE,
        !.ErrorCollector.Enabled = TRUE,
        !.ErrorCollector.CaptureEvents = TRUE,
        !.ErrorCollector.IgnoreStatusCodes = <<404>>,
        !.ErrorCollector.Attributes.Enabled = TRUE,
        !.Utilization.DetectAWS = TRUE,
        !.Utilization.DetectAzure = TRUE,
        !.Utilization.DetectPCF = TRUE,
        !.Utilization.DetectGCP = TRUE,
        !.Utilization.DetectDocker = TRUE,
        !.Utilization.DetectKubernetes = TRUE,
        !.Attributes.Enabled = TRUE,
        !.RuntimeSampler.Enabled = TRUE,
        !.TransactionTracer.Enabled = TRUE,
        !.TransactionTracer.Threshold.IsApdexFailing = TRUE,
        !.TransactionTracer.Threshold.Duration = 500,
        !.TransactionTracer.SegmentThreshold = 2,
        !.TransactionTracer.StackTraceThreshold = 500,
        !.TransactionTracer.Attributes.Enabled = TRUE,
        !.CrossApplicationTracer.Enabled = TRUE,
        !.DistributedTracer.Enabled = TRUE,
        !.SpanEvents.Enabled = TRUE,
        !.DatastoreTracer.InstanceReporting.Enabled = TRUE,
        !.DatastoreTracer.DatabaseNameReporting.Enabled = TRUE,
        !.DatastoreTracer.QueryParameters.Enabled = TRUE,
        !.DatastoreTracer.SlowQuery.Enabled = TRUE,
        !.DatastoreTracer.SlowQuery.Threshold = 10]

NewConfig_SlowQueryOff(appname, license) ==
    [ZeroConfig EXCEPT
        !.AppName = appname,
        !.License = license,
        !.Enabled = TRUE,
        !.CustomInsightsEvents.Enabled = TRUE,
        !.TransactionEvents.Enabled = TRUE,
        !.TransactionEvents.Attributes.Enabled = TRUE,
        !.HighSecurity = FALSE,
        !.ErrorCollector.Enabled = TRUE,
        !.ErrorCollector.CaptureEvents = TRUE,
        !.ErrorCollector.IgnoreStatusCodes = <<404>>,
        !.ErrorCollector.Attributes.Enabled = TRUE,
        !.Utilization.DetectAWS = TRUE,
        !.Utilization.DetectAzure = TRUE,
        !.Utilization.DetectPCF = TRUE,
        !.Utilization.DetectGCP = TRUE,
        !.Utilization.DetectDocker = TRUE,
        !.Utilization.DetectKubernetes = TRUE,
        !.Attributes.Enabled = TRUE,
        !.RuntimeSampler.Enabled = TRUE,
        !.TransactionTracer.Enabled = TRUE,
        !.TransactionTracer.Threshold.IsApdexFailing = TRUE,
        !.TransactionTracer.Threshold.Duration = 500,
        !.TransactionTracer.SegmentThreshold = 2,
        !.TransactionTracer.StackTraceThreshold = 500,
        !.TransactionTracer.Attributes.Enabled = TRUE,
        !.CrossApplicationTracer.Enabled = TRUE,
        !.DistributedTracer.Enabled = FALSE,
        !.SpanEvents.Enabled = TRUE,
        !.DatastoreTracer.InstanceReporting.Enabled = TRUE,
        !.DatastoreTracer.DatabaseNameReporting.Enabled = TRUE,
        !.DatastoreTracer.QueryParameters.Enabled = TRUE,
        !.DatastoreTracer.SlowQuery.Threshold = 10]

NewConfig(appname, license) ==
    [ZeroConfig EXCEPT
        !.AppName = appname,
        !.License = license,
        !.Enabled = TRUE,
        !.CustomInsightsEvents.Enabled = TRUE,
        !.TransactionEvents.Enabled = TRUE,
        !.TransactionEvents.Attributes.Enabled = TRUE,
        !.HighSecurity = FALSE,
        !.ErrorCollector.Enabled = TRUE,
        !.ErrorCollector.CaptureEvents = TRUE,
        !.ErrorCollector.IgnoreStatusCodes = <<404>>,
        !.ErrorCollector.Attributes.Enabled = TRUE,
        !.Utilization.DetectAWS = TRUE,
        !.Utilization.DetectAzure = TRUE,
        !.Utilization.DetectPCF = TRUE,
        !.Utilization.DetectGCP = TRUE,
        !.Utilization.DetectDocker = TRUE,
        !.Utilization.DetectKubernetes = TRUE,
        !.Attributes.Enabled = TRUE,
        !.RuntimeSampler.Enabled = TRUE,
        !.TransactionTracer.Enabled = TRUE,
        !.TransactionTracer.Threshold.IsApdexFailing = TRUE,
        !.TransactionTracer.Threshold.Duration = 500,
        !.TransactionTracer.SegmentThreshold = 2,
        !.TransactionTracer.StackTraceThreshold = 500,
        !.TransactionTracer.Attributes.Enabled = TRUE,
        !.CrossApplicationTracer.Enabled = TRUE,
        !.DistributedTracer.Enabled = FALSE,
        !.SpanEvents.Enabled = TRUE,
        !.DatastoreTracer.InstanceReporting.Enabled = TRUE,
        !.DatastoreTracer.DatabaseNameReporting.Enabled = TRUE,
        !.DatastoreTracer.QueryParameters.Enabled = TRUE,
        !.DatastoreTracer.SlowQuery.Enabled = TRUE,
        !.DatastoreTracer.SlowQuery.Threshold = 10]

----------------------------------------------------------------------------
(* Config.Validate *)

\* the application-name check moved ahead of the license check
Validate_NameFirst(c) ==
    IF EmptyString = c.AppName /\ c.Enabled THEN errAppNameMissing
    ELSE IF c.Enabled /\ Len(c.License) # licenseLength THEN errLicenseLen
    ELSE IF ~c.Enabled /\ Len(c.License) # licenseLength /\ Len(c.License) # 0
        THEN errLicenseLen
    ELSE IF c.HighSecurity /\ EmptyString # c.SecurityPoliciesToken
        THEN errHighSecurityWithSecurityPolicies
    ELSE IF c.CrossApplicationTracer.Enabled /\ c.DistributedTracer.Enabled
        THEN errMixedTracers
    ELSE IF Count(c.AppName, Delim) >= appNameLimit THEN errAppNameLimit
    ELSE nil

\* an enabled agent is allowed the empty license as well
Validate_EmptyLicenseAlways(c) ==
    IF Len(c.License) # licenseLength /\ Len(c.License) # 0 THEN errLicenseLen
    ELSE IF EmptyString = c.AppName /\ c.Enabled THEN errAppNameMissing
    ELSE IF c.HighSecurity /\ EmptyString # c.SecurityPoliciesToken
        THEN errHighSecurityWithSecurityPolicies
    ELSE IF c.CrossApplicationTracer.Enabled /\ c.DistributedTracer.Enabled
        THEN errMixedTracers
    ELSE IF Count(c.AppName, Delim) >= appNameLimit THEN errAppNameLimit
    ELSE nil

\* a disabled agent gets no relaxation of the license length
Validate_NoRelaxation(c) ==
    IF Len(c.License) # licenseLength THEN errLicenseLen
    ELSE IF EmptyString = c.AppName /\ c.Enabled THEN errAppNameMissing
    ELSE IF c.HighSecurity /\ EmptyString # c.SecurityPoliciesToken
        THEN errHighSecurityWithSecurityPolicies
    ELSE IF c.CrossApplicationTracer.Enabled /\ c.DistributedTracer.Enabled
        THEN errMixedTracers
    ELSE IF Count(c.AppName, Delim) >= appNameLimit THEN errAppNameLimit
    ELSE nil

\* the application-name check is dropped
Validate_NoNameCheck(c) ==
    IF c.Enabled /\ Len(c.License) # licenseLength THEN errLicenseLen
    ELSE IF ~c.Enabled /\ Len(c.License) # licenseLength /\ Len(c.License) # 0
        THEN errLicenseLen
    ELSE IF c.HighSecurity /\ EmptyString # c.SecurityPoliciesToken
        THEN errHighSecurityWithSecurityPolicies
    ELSE IF c.CrossApplicationTracer.Enabled /\ c.DistributedTracer.Enabled
        THEN errMixedTracers
    ELSE IF Count(c.AppName, Delim) >= appNameLimit THEN errAppNameLimit
    ELSE nil

\* the tracer check moved ahead of the security-policy check
Validate_TracersFirst(c) ==
    IF c.Enabled /\ Len(c.License) # licenseLength THEN errLicenseLen
    ELSE IF ~c.Enabled /\ Len(c.License) # licenseLength /\ Len(c.License) # 0
        THEN errLicenseLen
    ELSE IF EmptyString = c.AppName /\ c.Enabled THEN errAppNameMissing
    ELSE IF c.CrossApplicationTracer.Enabled /\ c.DistributedTracer.Enabled
        THEN errMixedTracers
    ELSE IF c.HighSecurity /\ EmptyString # c.SecurityPoliciesToken
        THEN errHighSecurityWithSecurityPolicies
    ELSE IF Count(c.AppName, Delim) >= appNameLimit THEN errAppNameLimit
    ELSE nil

\* the rollup-name check moved ahead of the tracer check
Validate_LimitFirst(c) ==
    IF c.Enabled /\ Len(c.License) # licenseLength THEN errLicenseLen
    ELSE IF ~c.Enabled /\ Len(c.License) # licenseLength /\ Len(c.License) # 0
        THEN errLicenseLen
    ELSE IF EmptyString = c.AppName /\ c.Enabled THEN errAppNameMissing
    ELSE IF c.HighSecurity /\ EmptyString # c.SecurityPoliciesToken
        THEN errHighSecurityWithSecurityPolicies
    ELSE IF Count(c.AppName, Delim) >= appNameLimit THEN errAppNameLimit
    ELSE IF c.CrossApplicationTracer.Enabled /\ c.DistributedTracer.Enabled
        THEN errMixedTracers
    ELSE nil

\* '>' in place of '>=' in the rollup-name check
Validate_LimitOffByOne(c) ==
    IF c.Enabled /\ Len(c.License) # licenseLength THEN errLicenseLen
    ELSE IF ~c.Enabled /\ Len(c.License) # licenseLength /\ Len(c.License) # 0
        THEN errLicenseLen
    ELSE IF EmptyString = c.AppName /\ c.Enabled THEN errAppNameMissing
    ELSE IF c.HighSecurity /\ EmptyString # c.SecurityPoliciesToken
        THEN errHighSecurityWithSecurityPolicies
    ELSE IF c.CrossApplicationTracer.Enabled /\ c.DistributedTracer.Enabled
        THEN errMixedTracers
    ELSE IF Count(c.AppName, Delim) > appNameLimit THEN errAppNameLimit
    ELSE nil

\* the application-name check ignores the Enabled flag
Validate_NameAlwaysRequired(c) ==
    IF c.Enabled /\ Len(c.License) # licenseLength THEN errLicenseLen
    ELSE IF ~c.Enabled /\ Len(c.License) # licenseLength /\ Len(c.License) # 0
        THEN errLicenseLen
    ELSE IF EmptyString = c.AppName THEN errAppNameMissing
    ELSE IF c.HighSecurity /\ EmptyString # c.SecurityPoliciesToken
        THEN errHighSecurityWithSecurityPolicies
    ELSE IF c.CrossApplicationTracer.Enabled /\ c.DistributedTracer.Enabled
        THEN errMixedTracers
    ELSE IF Count(c.AppName, Delim) >= appNameLimit THEN errAppNameLimit
    ELSE nil

Validate(c) ==
    IF c.Enabled /\ Len(c.License) # licenseLength THEN errLicenseLen
    ELSE IF ~c.Enabled /\ Len(c.License) # licenseLength /\ Len(c.License) # 0
        THEN errLicenseLen
    ELSE IF EmptyString = c.AppName /\ c.Enabled THEN errAppNameMissing
    ELSE IF c.HighSecurity /\ EmptyString # c.SecurityPoliciesToken
        THEN errHighSecurityWithSecurityPolicies
    ELSE IF c.CrossApplicationTracer.Enabled /\ c.DistributedTracer.Enabled
        THEN errMixedTracers
    ELSE IF Count(c.AppName, Delim) >= appNameLimit THEN errAppNameLimit
    ELSE nil

----------------------------------------------------------------------------
(* State machine: a caller builds a Config, assigns its exported fields,   *)
(* and calls Validate.                                                     *)
(*   cfg    the caller's Config value                                      *)
(*   result the value returned by Validate for the current cfg, NoResult   *)
(*          when Validate has not been called since cfg last changed       *)
(*   built  <<appname, license>> while cfg is the unmodified return value  *)
(*          of NewConfig(appname, license), << >> otherwise                *)

Init ==
    /\ cfg = ZeroConfig
    /\ result = NoResult
    /\ built = << >>

CallNewConfig ==
    \E appname \in AppNames, license \in Licenses :
        /\ cfg' = NewConfig(appname, license)
        /\ built' = <<appname, license>>
        /\ result' = NoResult

Assign(c) ==
    /\ cfg' = c
    /\ built' = << >>
    /\ result' = NoResult

SetAppName ==
    \E v \in AppNames : Assign([cfg EXCEPT !.AppName = v])

SetLicense ==
    \E v \in Licenses : Assign([cfg EXCEPT !.License = v])

SetEnabled ==
    \E v \in BOOLEAN : Assign([cfg EXCEPT !.Enabled = v])

SetHighSecurity ==
    \E v \in BOOLEAN : Assign([cfg EXCEPT !.HighSecurity = v])

SetSecurityPoliciesToken ==
    \E v \in Tokens : Assign([cfg EXCEPT !.SecurityPoliciesToken = v])

SetCrossApplicationTracer ==
    \E v \in BOOLEAN : Assign([cfg EXCEPT !.CrossApplicationTracer.Enabled = v])

SetDistributedTracer ==
    \E v \in BOOLEAN : Assign([cfg EXCEPT !.DistributedTracer.Enabled = v])

CallValidate ==
    /\ result' = Validate(cfg)
    /\ UNCHANGED <<cfg, built>>

Next ==
    \/ CallNewConfig
    \/ SetAppName
    \/ SetLicense
    \/ SetEnabled
    \/ SetHighSecurity
    \/ SetSecurityPoliciesToken
    \/ SetCrossApplicationTracer
    \/ SetDistributedTracer
    \/ CallValidate

Spec == Init /\ [][Next]_vars

----------------------------------------------------------------------------
(* Properties *)

\* Validate has been called on the current value of cfg
Validated == result # NoResult

\* cfg is the unmodified return value of a NewConfig call
Built == built # << >>

LicenseLenOK(c) ==
    IF c.Enabled THEN Len(c.License) = 40 ELSE Len(c.License) \in {0, 40}

NameGiven(c) == c.Enabled => c.AppName # << >>

PolicyConflict(c) == c.HighSecurity /\ c.SecurityPoliciesToken # << >>

TracerConflict(c) ==
    c.CrossApplicationTracer.Enabled /\ c.DistributedTracer.Enabled

DelimitersIn(s) == Cardinality({i \in 1..Len(s) : s[i] = ";"})

Delimiters(c) == DelimitersIn(c.AppName)

\* the five invariants, numbered in the documented order
Violated(i, c) ==
    CASE i = 1 -> ~LicenseLenOK(c)
      [] i = 2 -> ~NameGiven(c)
      [] i = 3 -> PolicyConflict(c)
      [] i = 4 -> TracerConflict(c)
      [] i = 5 -> Delimiters(c) >= 3

Reason(i) ==
    CASE i = 1 -> errLicenseLen
      [] i = 2 -> errAppNameMissing
      [] i = 3 -> errHighSecurityWithSecurityPolicies
      [] i = 4 -> errMixedTracers
      [] i = 5 -> errAppNameLimit

FirstViolation(c) ==
    IF \E i \in 1..5 : Violated(i, c)
    THEN Reason(CHOOSE i \in 1..5 :
                    Violated(i, c) /\ \A j \in 1..(i - 1) : ~Violated(j, c))
    ELSE nil

\* C1: for a non-empty name with fewer than 3 ';' and a 40-character
\* license, Validate of the unmodified NewConfig(name, license) returns nil.
C1_DefaultsValidate ==
    (Built /\ Validated)
        => ((built[1] # << >> /\ DelimitersIn(built[1]) < 3 /\ Len(built[2]) = 40)
                => result = nil)

C1_Witness ==
    /\ Built
    /\ built[1] = <<"s", "v", "c">>
    /\ Len(built[2]) = 40
    /\ result = nil

\* C2: Validate returns the reason of the first violated invariant in the
\* order license length, name required, security-policy conflict, tracer
\* conflict, rollup-name count, and nil exactly when none is violated.
C2_FirstViolationWins ==
    Validated => result = FirstViolation(cfg)

C2_Witness ==
    /\ Validated
    /\ Violated(1, cfg) /\ Violated(2, cfg) /\ Violated(3, cfg) /\ Violated(4, cfg)
    /\ result = errLicenseLen

\* C3: an enabled configuration whose License length is not 40 (the empty
\* License included) is rejected with errLicenseLen, whatever the other
\* fields hold.
C3_EnabledLicenseLen ==
    (Validated /\ cfg.Enabled /\ Len(cfg.License) # 40)
        => result = errLicenseLen

C3_Witness ==
    /\ cfg.Enabled
    /\ cfg.License = << >>
    /\ cfg.AppName = << >>
    /\ PolicyConflict(cfg)
    /\ TracerConflict(cfg)
    /\ result = errLicenseLen

\* C4: a disabled configuration is rejected with errLicenseLen exactly when
\* its License length is neither 0 nor 40.
C4_DisabledLicenseLen ==
    (Validated /\ ~cfg.Enabled)
        => (result = errLicenseLen <=> Len(cfg.License) \notin {0, 40})

C4_Witness ==
    /\ ~cfg.Enabled
    /\ cfg.License = << >>
    /\ Validated
    /\ result # errLicenseLen

\* C5 as stated: an enabled configuration with an empty AppName is rejected
\* with errAppNameMissing.
C5_Original ==
    (Validated /\ cfg.Enabled /\ cfg.AppName = << >>)
        => result = errAppNameMissing

\* C5 amended: an enabled configuration with a 40-character License and an
\* empty AppName is rejected with errAppNameMissing.
C5_NameRequired ==
    (Validated /\ cfg.Enabled /\ Len(cfg.License) = 40 /\ cfg.AppName = << >>)
        => result = errAppNameMissing

C5_Witness ==
    /\ cfg.Enabled
    /\ Len(cfg.License) = 40
    /\ cfg.AppName = << >>
    /\ PolicyConflict(cfg)
    /\ result = errAppNameMissing

\* C6 as stated: HighSecurity with a non-empty SecurityPoliciesToken is
\* rejected with errHighSecurityWithSecurityPolicies regardless of all
\* other fields.
C6_Original ==
    (Validated /\ cfg.HighSecurity /\ cfg.SecurityPoliciesToken # << >>)
        => result = errHighSecurityWithSecurityPolicies

\* C6 amended: HighSecurity with a non-empty SecurityPoliciesToken is
\* rejected with errHighSecurityWithSecurityPolicies whenever the license
\* length and application-name checks pass, regardless of the tracer
\* switches and of the number of ';' in AppName.
C6_PolicyConflict ==
    (Validated /\ cfg.HighSecurity /\ cfg.SecurityPoliciesToken # << >>
        /\ LicenseLenOK(cfg) /\ NameGiven(cfg))
        => result = errHighSecurityWithSecurityPolicies

C6_Witness ==
    /\ cfg.HighSecurity
    /\ cfg.SecurityPoliciesToken # << >>
    /\ TracerConflict(cfg)
    /\ Delimiters(cfg) >= 3
    /\ result = errHighSecurityWithSecurityPolicies

\* C7 as stated: a configuration with both tracers enabled is rejected with
\* errMixedTracers.
C7_Original ==
    (Validated /\ cfg.CrossApplicationTracer.Enabled
        /\ cfg.DistributedTracer.Enabled)
        => result = errMixedTracers

\* C7 amended: a configuration with both tracers enabled is rejected with
\* errMixedTracers whenever the license length, application-name and
\* security-policy checks pass, whatever the number of ';' in AppName.
C7_MixedTracers ==
    (Validated /\ cfg.CrossApplicationTracer.Enabled
        /\ cfg.DistributedTracer.Enabled
        /\ LicenseLenOK(cfg) /\ NameGiven(cfg) /\ ~PolicyConflict(cfg))
        => result = errMixedTracers

C7_Witness ==
    /\ cfg.CrossApplicationTracer.Enabled
    /\ cfg.DistributedTracer.Enabled
    /\ Delimiters(cfg) >= 3
    /\ result = errMixedTracers

\* C8: a configuration that passes the four earlier checks is rejected with
\* errAppNameLimit when AppName holds at least 3 ';' and accepted otherwise
\* ("a;b;c" accepted, "a;b;c;d" rejected).
C8_RollupLimit ==
    (Validated /\ \A i \in 1..4 : ~Violated(i, cfg))
        => /\ result = (IF Delimiters(cfg) >= 3 THEN errAppNameLimit ELSE nil)
           /\ cfg.AppName = <<"a", ";", "b", ";", "c">> => result = nil
           /\ cfg.AppName = <<"a", ";", "b", ";", "c", ";", "d">>
                => result = errAppNameLimit

C8_Witness ==
    /\ cfg.AppName = <<"a", ";", "b", ";", "c", ";", "d">>
    /\ result = errAppNameLimit

\* C9: NewConfig returns, for any inputs, a configuration holding the
\* inputs unchanged, enabled, high security off, every feature switch on
\* and distributed tracing off.
C9_Defaults ==
    Built =>
        /\ cfg.AppName = built[1]
        /\ cfg.License = built[2]
        /\ cfg.Enabled
        /\ ~cfg.HighSecurity
        /\ cfg.CustomInsightsEvents.Enabled
        /\ cfg.TransactionEvents.Enabled
        /\ cfg.ErrorCollector.Enabled
        /\ cfg.TransactionTracer.Enabled
        /\ cfg.SpanEvents.Enabled
        /\ cfg.DatastoreTracer.InstanceReporting.Enabled
        /\ cfg.DatastoreTracer.DatabaseNameReporting.Enabled
        /\ cfg.DatastoreTracer.QueryParameters.Enabled
        /\ cfg.DatastoreTracer.SlowQuery.Enabled
        /\ cfg.RuntimeSampler.Enabled
        /\ cfg.Utilization.DetectAWS
        /\ cfg.Utilization.DetectAzure
        /\ cfg.Utilization.DetectPCF
        /\ cfg.Utilization.DetectGCP
        /\ cfg.Utilization.DetectDocker
        /\ cfg.Utilization.DetectKubernetes
        /\ cfg.CrossApplicationTracer.Enabled
        /\ ~cfg.DistributedTracer.Enabled

C9_Witness ==
    /\ Built
    /\ built[1] = << >>
    /\ Len(built[2]) = 1
    /\ cfg.SpanEvents.Enabled

\* C10: a disabled configuration is accepted exactly when its License
\* length is 0 or 40, it has no security-policy conflict, not both tracers
\* enabled, and fewer than 3 ';' in AppName; an empty AppName is accepted.
C10_DisabledAccepted ==
    (Validated /\ ~cfg.Enabled)
        => (result = nil
                <=> /\ Len(cfg.License) \in {0, 40}
                    /\ ~PolicyConflict(cfg)
                    /\ ~TracerConflict(cfg)
                    /\ Delimiters(cfg) < 3)

C10_Witness ==
    /\ ~cfg.Enabled
    /\ cfg.AppName = << >>
    /\ cfg.License = << >>
    /\ result = nil

====
